---------------------------- MODULE Spec2Model ----------------------------
(***************************************************************************)
(* A state-machine model of the dynamic-programming solution engine        *)
(* (src/respy/solve.py) and of the forward simulator                       *)
(* (src/robupy/simulate/simulate_python.py).                               *)
(*                                                                         *)
(* Real numbers are exact rationals <<numerator, denominator>> in lowest   *)
(* terms with a positive denominator; <<0, 0>> is NaN, which is also the   *)
(* content of an expected-value-function cell that was never stored.       *)
(***************************************************************************)
EXTENDS Integers, Sequences, FiniteSets, TLC

(***************************************************************************)
(* Bounds of the model.                                                    *)
(***************************************************************************)
MaxPeriods == 3
MaxDense == 2
MaxPoints == 3
NumDraws == 2

(***************************************************************************)
(* Rational arithmetic.                                                    *)
(***************************************************************************)
Abs(x) == IF x < 0 THEN -x ELSE x

RECURSIVE GCD(_, _)
GCD(a, b) == IF b = 0 THEN a ELSE GCD(b, a % b)

NaN == <<0, 0>>
IsNaN(x) == x[2] = 0

Rat(n, d) ==
    IF d = 0 THEN NaN
    ELSE LET g == GCD(Abs(n), Abs(d))
             s == IF d < 0 THEN -1 ELSE 1
         IN  <<(s * n) \div g, (s * d) \div g>>

Int2Rat(n) == <<n, 1>>
Zero == <<0, 1>>
One == <<1, 1>>

\* the operands are reduced by their common factors before they are
\* multiplied, which keeps the intermediate integers small
RAdd(x, y) ==
    IF IsNaN(x) \/ IsNaN(y) THEN NaN
    ELSE LET g == GCD(x[2], y[2])
         IN  Rat(x[1] * (y[2] \div g) + y[1] * (x[2] \div g),
                 (x[2] \div g) * y[2])
RMul(x, y) ==
    IF IsNaN(x) \/ IsNaN(y) THEN NaN
    ELSE LET g == GCD(Abs(x[1]), y[2])
             h == GCD(Abs(y[1]), x[2])
         IN  Rat((x[1] \div g) * (y[1] \div h), (x[2] \div h) * (y[2] \div g))
RLess(x, y) ==
    /\ ~IsNaN(x)
    /\ ~IsNaN(y)
    /\ LET g == GCD(x[2], y[2])
       IN  x[1] * (y[2] \div g) < y[1] * (x[2] \div g)
\* max as numpy computes it: NaN propagates
RMax2(x, y) == IF IsNaN(x) \/ IsNaN(y) THEN NaN
               ELSE IF RLess(x, y) THEN y ELSE x

RECURSIVE RMaxSeq(_)
RMaxSeq(s) == IF Len(s) = 1 THEN s[1] ELSE RMax2(s[1], RMaxSeq(Tail(s)))

RECURSIVE RSumSeq(_)
RSumSeq(s) == IF s = <<>> THEN Zero ELSE RAdd(s[1], RSumSeq(Tail(s)))

RMean(s) == RMul(RSumSeq(s), Rat(1, Len(s)))

RECURSIVE Pow3(_)
Pow3(k) == IF k = 0 THEN 1 ELSE 3 * Pow3(k - 1)

\* np.exp on the integer linear predictors of the model. The base is 3, so
\* that the value is a rational: positive, strictly increasing, Exp(0) = 1.
Exp(x) == IF x >= 0 THEN <<Pow3(x), 1>> ELSE <<1, Pow3(-x)>>

RECURSIVE Dot(_, _)
Dot(u, v) == IF u = <<>> THEN 0 ELSE u[1] * v[1] + Dot(Tail(u), Tail(v))

RECURSIVE SeqSum(_)
SeqSum(s) == IF s = <<>> THEN 0 ELSE s[1] + SeqSum(Tail(s))


(***************************************************************************)
(* Program state.                                                          *)
(***************************************************************************)
VARIABLES
    \* ---- solve: inputs
    optim_paras,               \* delta, n_periods, shocks_cholesky, wage_*, nonpec_*
    options,                   \* interpolation_points
    n_dense,                   \* number of dense partitions of the state space
    has_sub_state_spaces,      \* hasattr(state_space, "sub_state_spaces")
    choice_sets,               \* dense index -> choice-set mask
    \* ---- solve: attributes of state_space
    wages, nonpecs, expected_value_functions,
    \* ---- solve: locals of _solve_with_backward_induction
    pc, todo, period, draws_emax_risk,
    period_wages, period_nonpecs, continuation_values,
    period_draws_emax_risk, any_interpolated,
    period_expected_value_functions, pending,
    \* ---- solve: history
    visited, stored, mode, order, n_writes, cont_reads,
    \* ---- pyth_simulate: arguments
    num_agents, num_periods, edu_start, edu_max, delta_sim,
    periods_payoffs_systematic, periods_emax, periods_draws_sims, states_all,
    \* ---- pyth_simulate: locals
    pc_sim, count, dataset, i_agent, period_sim, current_state,
    \* ---- pyth_simulate: history (the total_payoffs of every record)
    total_payoffs_log,
    \* ---- evaluate: arguments
    robupy_obj, data_frame,
    \* ---- evaluate: locals
    pc_eval, attrs, model_paras, periods_draws_prob, periods_draws_emax,
    solution, likl,
    \* ---- evaluate: history (the object as given, the batteries created,
    \* the solutions run and the arguments of the criterion function)
    robupy_obj_given, draws_created, solve_calls, criterion_args,
    \* ---- process_model: the dictionaries and the position in the round trip
    init_dict, attr_dict, ini_back, shocks_cov, pc_conv,
    \* ---- process_model: history (the dictionary as given, the arguments of
    \* np.linalg.cholesky)
    init_dict_given, cholesky_calls

simArgVars == <<num_agents, num_periods, edu_start, edu_max, delta_sim,
                periods_payoffs_systematic, periods_emax, periods_draws_sims,
                states_all>>
simVars == <<simArgVars, pc_sim, count, dataset, i_agent, period_sim,
             current_state,
             total_payoffs_log>>

evalVars == <<robupy_obj, data_frame, pc_eval, attrs, model_paras,
              periods_draws_prob, periods_draws_emax, solution, likl,
              robupy_obj_given, draws_created, solve_calls, criterion_args>>
convVars == <<init_dict, attr_dict, ini_back, shocks_cov, pc_conv, init_dict_given,
              cholesky_calls>>

inputVars == <<optim_paras, options, n_dense, has_sub_state_spaces,
               choice_sets>>
attrVars == <<wages, nonpecs, expected_value_functions>>
localVars == <<pc, todo, period, draws_emax_risk, period_wages,
               period_nonpecs, continuation_values, period_draws_emax_risk,
               any_interpolated, period_expected_value_functions, pending>>
histVars == <<visited, stored, mode, order, n_writes, cont_reads>>
solveVars == <<inputVars, attrVars, localVars, histVars>>

(***************************************************************************)
(* The state space consumed by the solution (enumeration component).       *)
(* Agents start with 0 or 1 year of experience in occupation a, so a core  *)
(* state of period p is the experience exp_a in 0..p+1; the integer key    *)
(* p * n_dense + d  names the dense partition d in period p.               *)
(***************************************************************************)
Choices == <<"a", "edu", "home">>
NumChoices == Len(Choices)

Keys == 0 .. (optim_paras.n_periods * n_dense - 1)

\* state_space.dense_index_to_complex: key -> ((period,), dense index)
dense_index_to_complex == [x \in Keys |-> <<<<x \div n_dense>>, x % n_dense>>]

KeyPeriod(key) == dense_index_to_complex[key][1][1]
KeyDense(key) == dense_index_to_complex[key][2]
MakeKey(p, d) == p * n_dense + d

\* state_space.sub_state_spaces (its dense indices), when the attribute exists
sub_state_spaces == 0 .. (n_dense - 1)

\* state_space.core.query("period == @period"): the core states, in order
CoreStates(p) == [i \in 1 .. (p + 2) |-> [period |-> p, exp_a |-> i - 1]]

dense_index_to_indices == [key \in Keys |-> CoreStates(KeyPeriod(key))]
dense_index_to_choice_set == [key \in Keys |-> choice_sets[KeyDense(key)]]
dense_index_to_dense_covariates == [key \in Keys |-> [type |-> KeyDense(key)]]

\* compute_covariates: the covariates of one state of a dense partition
compute_covariates(state, dense_covariates) ==
    [constant |-> 1, exp_a |-> state.exp_a, type |-> dense_covariates.type]

\* the state reached from core state i (1-based row) of a period by a choice
ChildRow(i, choice) == IF choice = "a" THEN i + 1 ELSE i

(***************************************************************************)
(* Reward evaluator: _create_choice_rewards.                               *)
(***************************************************************************)
RECURSIVE LinPredOver(_, _, _)
LinPredOver(names, covariates, params) ==
    IF names = {} THEN 0
    ELSE LET n == CHOOSE n \in names : TRUE
         IN  covariates[n] * params[n]
             + LinPredOver(names \ {n}, covariates, params)

\* np.dot(states[columns], params): the columns are the index of params
LinPred(covariates, params) == LinPredOver(DOMAIN params, covariates, params)

\* [choice for i, choice in enumerate(choices) if choice_set[i]]
RECURSIVE EnabledFrom(_, _)
EnabledFrom(i, choice_set) ==
    IF i > Len(choice_set) THEN <<>>
    ELSE (IF choice_set[i] THEN <<Choices[i]>> ELSE <<>>)
         \o EnabledFrom(i + 1, choice_set)

EnabledChoices(choice_set) == EnabledFrom(1, choice_set)

\* np.ones((n_states, n_choices)) and np.zeros((n_states, n_choices))
MutantInitialWageZero == Zero
InitialWage == One
InitialNonpec == Zero

WageEntry(covariates, choice, paras) ==
    IF choice \in DOMAIN paras.wage
    THEN Exp(LinPred(covariates, paras.wage[choice]))
    ELSE InitialWage

NonpecEntry(covariates, choice, paras) ==
    IF choice \in DOMAIN paras.nonpec
    THEN Int2Rat(LinPred(covariates, paras.nonpec[choice]))
    ELSE InitialNonpec

create_choice_rewards(core_indices, choice_set, dense_covariates, paras) ==
    LET choices == EnabledChoices(choice_set)
        n_choices == Len(choices)
        n_states == Len(core_indices)
        states == [i \in 1 .. n_states |->
                      compute_covariates(core_indices[i], dense_covariates)]
    IN  [wages |-> [i \in 1 .. n_states |-> [j \in 1 .. n_choices |->
                       WageEntry(states[i], choices[j], paras)]],
         nonpecs |-> [i \in 1 .. n_states |-> [j \in 1 .. n_choices |->
                       NonpecEntry(states[i], choices[j], paras)]]]


(***************************************************************************)
(* Shock transformer: transform_base_draws_with_cholesky_factor.           *)
(***************************************************************************)
\* positions (in Choices) of the enabled choices, in order
RECURSIVE EnabledPositionsFrom(_, _)
EnabledPositionsFrom(i, choice_set) ==
    IF i > Len(choice_set) THEN <<>>
    ELSE (IF choice_set[i] THEN <<i>> ELSE <<>>)
         \o EnabledPositionsFrom(i + 1, choice_set)

\* state_space.base_draws_sol[key]: NumDraws draws per enabled choice, which
\* differ between the partitions; 0 or 1 in the first dimension and -1, 0 or
\* 1 in the others
base_draws_sol(key, choice_set) ==
    [j \in 1 .. NumDraws |->
        [c \in 1 .. Len(EnabledPositionsFrom(1, choice_set)) |->
            IF c = 1 THEN (key + j) % 2 ELSE ((key + j + c) % 3) - 1]]

\* draws.dot(cholesky.T) on the enabled dimensions, wage dimensions exponentiated
transform_base_draws_with_cholesky_factor(draws, choice_set, cholesky, paras) ==
    LET pos == EnabledPositionsFrom(1, choice_set)
        n == Len(pos)
        eps(z, i) == Dot([c \in 1 .. n |-> cholesky[pos[i]][pos[c]]], z)
    IN  [j \in 1 .. Len(draws) |-> [i \in 1 .. n |->
            IF Choices[pos[i]] \in DOMAIN paras.wage
            THEN Exp(eps(draws[j], i))
            ELSE Int2Rat(eps(draws[j], i))]]

(***************************************************************************)
(* Choice-value kernel and Monte Carlo solver.                             *)
(***************************************************************************)
\* total value of one choice: wage * draw + nonpec + delta * continuation
aggregate_utility(wage, nonpec, continuation_value, draw, delta) ==
    RAdd(RAdd(RMul(wage, draw), nonpec), RMul(delta, continuation_value))

\* for each state: the mean over the draws of the maximal total choice value
calculate_expected_value_functions(w, n, c, draws, delta) ==
    [i \in 1 .. Len(w) |->
        RMean([j \in 1 .. Len(draws) |->
            RMaxSeq([k \in 1 .. Len(w[i]) |->
                aggregate_utility(w[i][k], n[i][k], c[i][k], draws[j][k], delta)])])]

MutantFullSolutionNoDiscount(w, n, c, draws, paras) ==
    calculate_expected_value_functions(w, n, c, draws, One)
\* _full_solution, for one dense partition
full_solution(w, n, c, draws, paras) ==
    calculate_expected_value_functions(w, n, c, draws, paras.delta)

(***************************************************************************)
(* Backward induction: helpers of _solve_with_backward_induction.          *)
(***************************************************************************)
MutantForwardOrder(n_periods) == [i \in 1 .. n_periods |-> i - 1]
MutantSkippingOrder(n_periods) ==
    [i \in 1 .. ((n_periods + 1) \div 2) |-> n_periods + 1 - 2 * i]
\* reversed(range(n_periods))
PeriodOrder(n_periods) == [i \in 1 .. n_periods |-> n_periods - i]

\* the keys of the dense partitions of a period
KeysOfPeriod(p) == {MakeKey(p, d) : d \in 0 .. (n_dense - 1)} \cap Keys

\* [x for x, y in dense_index_to_complex.items() if y[0][0] == period]
period_keys(p) == {x \in Keys : dense_index_to_complex[x][1][1] = p}

\* the draws of every partition are those of the first partition of the
\* period that has the same choice set
MutantSharedDraws(draws, p) ==
    [key \in {k \in DOMAIN draws : k \in period_keys(p)} |->
        draws[CHOOSE k \in period_keys(p) :
                 /\ dense_index_to_choice_set[k] = dense_index_to_choice_set[key]
                 /\ \A l \in period_keys(p) :
                        dense_index_to_choice_set[l] = dense_index_to_choice_set[key]
                        => k <= l]]
\* {key: draws_emax_risk[key] for key in draws_emax_risk.keys() if key in period_keys}
PeriodDraws(draws, p) ==
    [key \in {k \in DOMAIN draws : k \in period_keys(p)} |-> draws[key]]

\* state_space.get_attribute_from_period(attribute, period)
get_attribute_from_period(attribute, p) == [key \in KeysOfPeriod(p) |-> attribute[key]]

\* the period whose stored expected value functions get_continuation_values reads
ContinuationPeriod(p) == p + 1

\* state_space.get_continuation_values(period)
get_continuation_values(p) ==
    [key \in KeysOfPeriod(p) |->
        LET choices == EnabledChoices(dense_index_to_choice_set[key])
            src == MakeKey(ContinuationPeriod(p), KeyDense(key))
        IN  [i \in 1 .. Len(dense_index_to_indices[key]) |->
                [j \in 1 .. Len(choices) |->
                    IF p = optim_paras.n_periods - 1 THEN Zero
                    ELSE IF src \in Keys /\ ChildRow(i, choices[j])
                                  \in 1 .. Len(expected_value_functions[src])
                         THEN expected_value_functions[src][ChildRow(i, choices[j])]
                         ELSE NaN]]]

\* the keys get_continuation_values(period) reads
ContinuationSources(p) ==
    IF p = optim_paras.n_periods - 1 THEN {}
    ELSE {MakeKey(ContinuationPeriod(p), KeyDense(key)) : key \in KeysOfPeriod(p)}

\* len(getattr(state_space, "sub_state_spaces", [1]))
n_dense_combinations ==
    IF has_sub_state_spaces THEN Cardinality(sub_state_spaces) ELSE 1

n_core_states(p) == Len(CoreStates(p))
n_states_in_period(p) == n_core_states(p) * n_dense_combinations

AnyInterpolated(points, n_states) == points <= n_states /\ points # -1

MutantInterpolationFirst(delta, interpolated) ==
    IF interpolated THEN "interpolation"
    ELSE IF delta = Zero THEN "myopic" ELSE "full"
\* the if / elif / else of lines 155-179
SolutionMode(delta, interpolated) ==
    IF delta = Zero THEN "myopic"
    ELSE IF interpolated THEN "interpolation" ELSE "full"

MutantMyopicAllKeys(keys) ==
    IF has_sub_state_spaces
    THEN [shape |-> "nested",
          value |-> [dense_idx \in sub_state_spaces |-> [key \in Keys |-> Zero]]]
    ELSE [shape |-> "scalar", value |-> Zero]
\* the myopic result: {dense_idx: {key: 0 ...}} or the scalar 0
MyopicResult(keys) ==
    IF has_sub_state_spaces
    THEN [shape |-> "nested",
          value |-> [dense_idx \in sub_state_spaces |-> [key \in keys |-> Zero]]]
    ELSE [shape |-> "scalar", value |-> Zero]

\* interpolate: exact values at the sampled states (the first
\* interpolation_points states of the period, over all its partitions), the
\* regression's prediction beta * (maximal non-stochastic total value) elsewhere
StateRank(p, key, i) == KeyDense(key) * n_core_states(p) + i

interpolate(w, n, c, draws, p, paras, opts, beta) ==
    [shape |-> "keyed",
     value |-> [key \in DOMAIN w |->
        LET exact(i) == calculate_expected_value_functions(
                            <<w[key][i]>>, <<n[key][i]>>, <<c[key][i]>>,
                            draws[key], paras.delta)[1]
            predictor(i) == RMaxSeq([k \in 1 .. Len(w[key][i]) |->
                RAdd(RAdd(w[key][i][k], n[key][i][k]),
                     RMul(paras.delta, c[key][i][k]))])
        IN  [i \in 1 .. Len(w[key]) |->
                IF StateRank(p, key, i) <= opts.interpolation_points
                THEN exact(i)
                ELSE RMul(beta, predictor(i))]]]

\* state_space.set_attribute_from_keys("expected_value_functions", value):
\* the new content of the attribute, stored by (period, dense index, state)
WrittenKeys(result, p) ==
    IF result.shape = "keyed" THEN DOMAIN result.value
    ELSE IF result.shape = "nested"
         THEN UNION {DOMAIN result.value[d] : d \in DOMAIN result.value}
    ELSE KeysOfPeriod(p)

set_attribute_from_keys(attribute, result, p) ==
    [key \in DOMAIN attribute |->
        IF key \notin WrittenKeys(result, p) THEN attribute[key]
        ELSE IF result.shape = "scalar"
             THEN [i \in 1 .. Len(attribute[key]) |-> result.value]
        ELSE IF result.shape = "nested"
             THEN [i \in 1 .. Len(attribute[key]) |->
                      result.value[KeyDense(key)][key]]
        ELSE result.value[key]]


(***************************************************************************)
(* Inputs of a solve.                                                      *)
(***************************************************************************)
AllChoices == <<TRUE, TRUE, TRUE>>
WithoutEdu == <<TRUE, FALSE, TRUE>>

\* the choice sets of n partitions: every choice everywhere, or no education
\* in the partitions with an even dense index
ChoiceSetAssignments(n) ==
    {[d \in 0 .. (n - 1) |-> AllChoices],
     [d \in 0 .. (n - 1) |-> IF d % 2 = 0 THEN WithoutEdu ELSE AllChoices]}

ZeroCholesky == <<<<0, 0, 0>>, <<0, 0, 0>>, <<0, 0, 0>>>>
CholeskySet == {ZeroCholesky, <<<<1, 0, 0>>, <<1, 1, 0>>, <<0, 0, 1>>>>}

DeltaSet == {Zero, Rat(9, 10)}

\* one wage choice with the coefficient 1 on experience, a constant
\* non-pecuniary reward 5 for staying home
ExampleRewards ==
    [wage |-> [a |-> [exp_a |-> 1]],
     nonpec |-> [home |-> [constant |-> 5]]]
RewardsSet ==
    {ExampleRewards,
     [wage |-> [a |-> [constant |-> 1, type |-> 1]],
      nonpec |-> [a |-> [constant |-> -1],
                  edu |-> [constant |-> 2, exp_a |-> 1],
                  home |-> [constant |-> 1]]]}

NoResult == [shape |-> "keyed", value |-> <<>>]

SolveInit ==
    /\ \E n_periods \in 1 .. MaxPeriods, delta \in DeltaSet,
          cholesky \in CholeskySet, rewards \in RewardsSet :
          optim_paras = [n_periods |-> n_periods, delta |-> delta,
                         shocks_cholesky |-> cholesky,
                         wage |-> rewards.wage, nonpec |-> rewards.nonpec]
    /\ options \in [interpolation_points : -1 .. MaxPoints]
    /\ has_sub_state_spaces \in BOOLEAN
    /\ n_dense \in 1 .. MaxDense
    /\ ~has_sub_state_spaces => n_dense = 1
    /\ choice_sets \in ChoiceSetAssignments(n_dense)
    /\ wages = <<>>
    /\ nonpecs = <<>>
    /\ expected_value_functions =
           [key \in Keys |-> [i \in 1 .. Len(dense_index_to_indices[key]) |-> NaN]]
    /\ pc = "solve"
    /\ todo = <<>>
    /\ period = -1
    /\ draws_emax_risk = <<>>
    /\ period_wages = <<>>
    /\ period_nonpecs = <<>>
    /\ continuation_values = <<>>
    /\ period_draws_emax_risk = <<>>
    /\ any_interpolated = FALSE
    /\ period_expected_value_functions = NoResult
    /\ pending = {}
    /\ visited = <<>>
    /\ stored = <<>>
    /\ mode = [p \in 0 .. (optim_paras.n_periods - 1) |-> "none"]
    /\ order = <<>>
    /\ n_writes = [key \in Keys |-> [i \in 1 .. Len(dense_index_to_indices[key]) |-> 0]]
    /\ cont_reads = {}

(***************************************************************************)
(* solve, lines 50-58: the rewards of every dense partition.               *)
(***************************************************************************)
CreateChoiceRewards ==
    /\ pc = "solve"
    /\ LET r == [key \in Keys |->
                    create_choice_rewards(dense_index_to_indices[key],
                                          dense_index_to_choice_set[key],
                                          dense_index_to_dense_covariates[key],
                                          optim_paras)]
       IN  /\ wages' = [key \in Keys |-> r[key].wages]
           /\ nonpecs' = [key \in Keys |-> r[key].nonpecs]
    /\ pc' = "draws"
    /\ UNCHANGED <<evalVars, convVars, simVars, inputVars, expected_value_functions, todo, period,
                   draws_emax_risk, period_wages, period_nonpecs,
                   continuation_values, period_draws_emax_risk,
                   any_interpolated, period_expected_value_functions,
                   pending, histVars>>

(***************************************************************************)
(* _solve_with_backward_induction, lines 122-131.                          *)
(***************************************************************************)
TransformDraws ==
    /\ pc = "draws"
    /\ draws_emax_risk' =
           [key \in Keys |->
               transform_base_draws_with_cholesky_factor(
                   base_draws_sol(key, dense_index_to_choice_set[key]),
                   dense_index_to_choice_set[key],
                   optim_paras.shocks_cholesky, optim_paras)]
    /\ todo' = PeriodOrder(optim_paras.n_periods)
    /\ pc' = "loop"
    /\ UNCHANGED <<evalVars, convVars, simVars, inputVars, attrVars, period, period_wages, period_nonpecs,
                   continuation_values, period_draws_emax_risk,
                   any_interpolated, period_expected_value_functions,
                   pending, histVars>>

(***************************************************************************)
(* Lines 133-152: the head of one iteration of the loop over the periods.  *)
(***************************************************************************)
BeginPeriod ==
    /\ pc = "loop"
    /\ todo # <<>>
    /\ LET p == Head(todo)
       IN  /\ period' = p
           /\ period_wages' = get_attribute_from_period(wages, p)
           /\ period_nonpecs' = get_attribute_from_period(nonpecs, p)
           /\ continuation_values' = get_continuation_values(p)
           /\ period_draws_emax_risk' = PeriodDraws(draws_emax_risk, p)
           /\ any_interpolated' =
                  AnyInterpolated(options.interpolation_points,
                                  n_states_in_period(p))
           /\ visited' = Append(visited, p)
           /\ order' = <<>>
           /\ cont_reads' = cont_reads \cup
                  {[by |-> p, key |-> k,
                    stored |-> \A i \in DOMAIN n_writes[k] : n_writes[k][i] > 0]
                     : k \in ContinuationSources(p) \cap Keys}
                  \cup {[by |-> p, key |-> k, stored |-> FALSE]
                     : k \in ContinuationSources(p) \ Keys}
    /\ todo' = Tail(todo)
    /\ period_expected_value_functions' = NoResult
    /\ pc' = "branch"
    /\ UNCHANGED <<evalVars, convVars, simVars, inputVars, attrVars, draws_emax_risk, pending,
                   stored, mode, n_writes>>

(***************************************************************************)
(* Lines 154-179: the three solution modes.                                *)
(***************************************************************************)
Myopic ==
    /\ pc = "branch"
    /\ SolutionMode(optim_paras.delta, any_interpolated) = "myopic"
    /\ period_expected_value_functions' = MyopicResult(DOMAIN period_wages)
    /\ mode' = [mode EXCEPT ![period] = "myopic"]
    /\ pc' = "store"
    /\ UNCHANGED <<evalVars, convVars, simVars, inputVars, attrVars, todo, period, draws_emax_risk,
                   period_wages, period_nonpecs, continuation_values,
                   period_draws_emax_risk, any_interpolated, pending,
                   visited, stored, order, n_writes, cont_reads>>

Interpolate ==
    /\ pc = "branch"
    /\ SolutionMode(optim_paras.delta, any_interpolated) = "interpolation"
    /\ \E beta \in {One, Rat(1, 2)} :
           period_expected_value_functions' =
               interpolate(period_wages, period_nonpecs, continuation_values,
                           period_draws_emax_risk, period, optim_paras,
                           options, beta)
    /\ mode' = [mode EXCEPT ![period] = "interpolation"]
    /\ pc' = "store"
    /\ UNCHANGED <<evalVars, convVars, simVars, inputVars, attrVars, todo, period, draws_emax_risk,
                   period_wages, period_nonpecs, continuation_values,
                   period_draws_emax_risk, any_interpolated, pending,
                   visited, stored, order, n_writes, cont_reads>>

\* the dispatch of _full_solution over the dense partitions of the period
FullSolutionDispatch ==
    /\ pc = "branch"
    /\ SolutionMode(optim_paras.delta, any_interpolated) = "full"
    /\ pending' = DOMAIN period_wages
    /\ mode' = [mode EXCEPT ![period] = "full"]
    /\ pc' = "full"
    /\ UNCHANGED <<evalVars, convVars, simVars, inputVars, attrVars, todo, period, draws_emax_risk,
                   period_wages, period_nonpecs, continuation_values,
                   period_draws_emax_risk, any_interpolated,
                   period_expected_value_functions,
                   visited, stored, order, n_writes, cont_reads>>

\* one worker solves one dense partition; the partitions finish in any order
FullSolutionTask(key) ==
    /\ pc = "full"
    /\ key \in pending
    /\ period_expected_value_functions' =
           [shape |-> "keyed",
            value |-> (key :> full_solution(period_wages[key],
                                            period_nonpecs[key],
                                            continuation_values[key],
                                            period_draws_emax_risk[key],
                                            optim_paras))
                      @@ period_expected_value_functions.value]
    /\ pending' = pending \ {key}
    /\ order' = Append(order, key)
    /\ pc' = IF pending' = {} THEN "store" ELSE "full"
    /\ UNCHANGED <<evalVars, convVars, simVars, inputVars, attrVars, todo, period, draws_emax_risk,
                   period_wages, period_nonpecs, continuation_values,
                   period_draws_emax_risk, any_interpolated,
                   visited, stored, mode, n_writes, cont_reads>>

(***************************************************************************)
(* Lines 181-184: the results of the period are stored.                    *)
(***************************************************************************)
Store ==
    /\ pc = "store"
    /\ expected_value_functions' =
           set_attribute_from_keys(expected_value_functions,
                                   period_expected_value_functions, period)
    /\ n_writes' =
           [key \in Keys |->
               IF key \in WrittenKeys(period_expected_value_functions, period)
               THEN [i \in DOMAIN n_writes[key] |-> n_writes[key][i] + 1]
               ELSE n_writes[key]]
    /\ stored' = Append(stored, period)
    /\ pc' = "loop"
    /\ UNCHANGED <<evalVars, convVars, simVars, inputVars, wages, nonpecs, todo, period, draws_emax_risk,
                   period_wages, period_nonpecs, continuation_values,
                   period_draws_emax_risk, any_interpolated,
                   period_expected_value_functions, pending,
                   visited, mode, order, cont_reads>>

(***************************************************************************)
(* Line 186: the solve returns the state space.                            *)
(***************************************************************************)
Return ==
    /\ pc = "loop"
    /\ todo = <<>>
    /\ pc' = "done"
    /\ UNCHANGED <<evalVars, convVars, simVars, inputVars, attrVars, todo, period, draws_emax_risk,
                   period_wages, period_nonpecs, continuation_values,
                   period_draws_emax_risk, any_interpolated,
                   period_expected_value_functions, pending, histVars>>

(***************************************************************************)
(* The forward simulator: pyth_simulate.                                   *)
(*                                                                         *)
(* A state is <<exp_a, exp_b, edu, edu_lagged>>.  The cells of the dataset *)
(* are floats, hence rationals here.                                       *)
(***************************************************************************)
MaxAgents == 2
MaxSimPeriods == 3

MISSING_FLOAT == Int2Rat(-99)
MISSING_INT == -99
HUGE_FLOAT == Int2Rat(1000000)

StateCode(st) == ((st[1] * 16 + st[2]) * 16 + st[3]) * 2 + st[4]

RECURSIVE SortedByCode(_)
SortedByCode(set) ==
    IF set = {} THEN <<>>
    ELSE LET m == CHOOSE x \in set : \A y \in set : StateCode(x) <= StateCode(y)
         IN  <<m>> \o SortedByCode(set \ {m})

\* the admissible states of a period: the years in a, b and school do not
\* exceed the period, schooling does not exceed the ceiling, and the lagged
\* indicator is 1 only after a year of school (and in the initial state)
AdmissibleStates(p, n_edu) ==
    IF p = 0 THEN {<<0, 0, 0, 1>>}
    ELSE {st \in (0 .. p) \X (0 .. p) \X (0 .. p) \X {0, 1} :
             /\ st[1] + st[2] + st[3] <= p
             /\ st[3] <= n_edu
             /\ st[4] = 1 => st[3] >= 1
             /\ st[3] = p => st[4] = 1}

\* states_all[period, k, :], k counted from 1 here
CreateStatesAll(n_periods, n_edu) ==
    [p \in 0 .. (n_periods - 1) |-> SortedByCode(AdmissibleStates(p, n_edu))]

\* mapping_state_idx[period, exp_a, exp_b, edu, edu_lagged]: the position of
\* the state in states_all[period], or missing
mapping_state_idx(p, st) ==
    IF p \in DOMAIN states_all /\ \E k \in DOMAIN states_all[p] : states_all[p][k] = st
    THEN CHOOSE k \in DOMAIN states_all[p] : states_all[p][k] = st
    ELSE MISSING_INT

\* the state reached from st by choice j (0 a, 1 b, 2 education, 3 home)
FutureState(st, j) ==
    IF j = 0 THEN <<st[1] + 1, st[2], st[3], 0>>
    ELSE IF j = 1 THEN <<st[1], st[2] + 1, st[3], 0>>
    ELSE IF j = 2 THEN <<st[1], st[2], st[3] + 1, 1>>
    ELSE <<st[1], st[2], st[3], 0>>

\* get_total_value: the total value of the four choices (entries 1..4 are
\* the choices 0..3). Wage shocks are multiplicative, the others additive;
\* education beyond the ceiling gets the fixed large negative penalty.
get_total_value(p, payoffs_systematic, draws, k) ==
    LET st == states_all[p][k]
        ex_post(j) == IF j \in {0, 1}
                      THEN RMul(payoffs_systematic[j + 1], draws[j + 1])
                      ELSE RAdd(payoffs_systematic[j + 1], draws[j + 1])
        future(j) == IF p = num_periods - 1 THEN Zero
                     ELSE LET idx == mapping_state_idx(p + 1, FutureState(st, j))
                          IN  IF idx = MISSING_INT THEN NaN
                              ELSE periods_emax[p + 1][idx]
        infeasible(j) == j = 2 /\ st[3] + 1 > edu_max - edu_start
    IN  [c \in 1 .. 4 |->
            IF infeasible(c - 1) THEN RMul(Int2Rat(-1), HUGE_FLOAT)
            ELSE RAdd(ex_post(c - 1), RMul(delta_sim, future(c - 1)))]

MutantArgMaxLast(v) ==
    (CHOOSE c \in DOMAIN v :
        /\ \A b \in DOMAIN v : ~RLess(v[c], v[b])
        /\ \A b \in DOMAIN v : b > c => RLess(v[b], v[c])) - 1
\* np.argmax: the first (0-based) position of a maximal entry
ArgMax(v) ==
    (CHOOSE c \in DOMAIN v :
        /\ \A b \in DOMAIN v : ~RLess(v[c], v[b])
        /\ \A b \in DOMAIN v : b < c => RLess(v[b], v[c])) - 1

MutantWageWithoutDraw(max_idx, payoffs_systematic, draws) ==
    IF max_idx \in {0, 1}
    THEN payoffs_systematic[max_idx + 1]
    ELSE MISSING_FLOAT
MutantIdentifiersSwapped(agent, p) == <<Int2Rat(p), Int2Rat(agent)>>
\* dataset[count, :2] = i, period
Identifiers(agent, p) == <<Int2Rat(agent), Int2Rat(p)>>

\* dataset[count, 3]: the earnings of the two occupations, else missing
RecordedWage(max_idx, payoffs_systematic, draws) ==
    IF max_idx \in {0, 1}
    THEN RMul(payoffs_systematic[max_idx + 1], draws[max_idx + 1])
    ELSE MISSING_FLOAT

MutantRecordedChoiceZeroBased(max_idx) == max_idx
\* dataset[count, 2] = max_idx + 1
RecordedChoice(max_idx) == max_idx + 1

MutantStartStateIsView == FALSE
\* current_state = states_all[0, 0, :].copy(): the copy shares no memory with
\* states_all, so the updates of current_state do not write into states_all
StartStateIsCopy == TRUE

MutantUpdatedStateWrongCounter(st, max_idx) ==
    <<st[1],
      IF max_idx \in {0, 1} THEN st[2] + 1 ELSE st[2],
      IF max_idx = 2 THEN st[3] + 1 ELSE st[3],
      IF max_idx = 2 THEN 1 ELSE 0>>
MutantUpdatedStateCountsHome(st, max_idx) ==
    <<IF max_idx \in {0, 3} THEN st[1] + 1 ELSE st[1],
      IF max_idx = 1 THEN st[2] + 1 ELSE st[2],
      IF max_idx = 2 THEN st[3] + 1 ELSE st[3],
      IF max_idx = 2 THEN 1 ELSE 0>>
MutantUpdatedStateSchoolAtHome(st, max_idx) ==
    <<IF max_idx = 0 THEN st[1] + 1 ELSE st[1],
      IF max_idx = 1 THEN st[2] + 1 ELSE st[2],
      IF max_idx >= 2 THEN st[3] + 1 ELSE st[3],
      IF max_idx = 2 THEN 1 ELSE 0>>
\* lines 73-85: the update of the experiences and of lagged education
UpdatedState(st, max_idx) ==
    <<IF max_idx = 0 THEN st[1] + 1 ELSE st[1],
      IF max_idx = 1 THEN st[2] + 1 ELSE st[2],
      IF max_idx = 2 THEN st[3] + 1 ELSE st[3],
      IF max_idx = 2 THEN 1 ELSE 0>>

\* np.tile(MISSING_FLOAT, (num_agents * num_periods, 8))
EmptyDataset(rows) == [r \in 1 .. rows |-> [c \in 1 .. 8 |-> MISSING_FLOAT]]

(***************************************************************************)
(* Inputs of a simulation.                                                 *)
(***************************************************************************)
SimDeltaSet == {Zero, Rat(1, 2)}
PayoffKinds == {"tie", "experience", "school", "home"}
EmaxKinds == {"zero", "experience"}
DrawSeeds == {0, 1}

PayoffsOf(kind, st) ==
    IF kind = "tie" THEN <<Int2Rat(2), Int2Rat(2), Int2Rat(2), Int2Rat(2)>>
    ELSE IF kind = "experience"
    THEN <<Int2Rat(2 + st[1]), Int2Rat(3 - st[1] + st[2]), One, Int2Rat(2)>>
    ELSE IF kind = "school"
    THEN <<One, One, Int2Rat(3), Int2Rat(2)>>
    ELSE <<One, Rat(1, 2), Int2Rat(-1), Int2Rat(3)>>

EmaxOf(kind, p, st) ==
    IF kind = "zero" THEN Zero ELSE Int2Rat(p + 2 * st[1] + st[3])

\* periods_draws_sims[period, i, :]: the wage draws are exponentiated
DrawsOf(seed, p, agent) ==
    IF seed = 0 THEN <<One, One, Zero, Zero>>
    ELSE <<Int2Rat(1 + ((p + agent) % 2)), One,
           Int2Rat((agent % 2) - 1), Int2Rat(p % 2)>>

SimInit ==
    /\ num_agents \in 1 .. MaxAgents
    /\ num_periods \in 1 .. MaxSimPeriods
    /\ edu_start = 10
    /\ edu_max \in {11, 12}
    /\ delta_sim \in SimDeltaSet
    /\ states_all = CreateStatesAll(num_periods, edu_max - edu_start)
    /\ \E kind \in PayoffKinds :
          periods_payoffs_systematic =
              [p \in 0 .. (num_periods - 1) |->
                  [k \in DOMAIN states_all[p] |-> PayoffsOf(kind, states_all[p][k])]]
    /\ \E kind \in EmaxKinds :
          periods_emax =
              [p \in 0 .. (num_periods - 1) |->
                  [k \in DOMAIN states_all[p] |-> EmaxOf(kind, p, states_all[p][k])]]
    /\ \E seed \in DrawSeeds :
          periods_draws_sims =
              [p \in 0 .. (num_periods - 1) |->
                  [agent \in 0 .. (num_agents - 1) |-> DrawsOf(seed, p, agent)]]
    /\ pc_sim = "agents"
    /\ count = 0
    /\ dataset = EmptyDataset(num_agents * num_periods)
    /\ i_agent = 0
    /\ period_sim = 0
    /\ current_state = <<0, 0, 0, 0>>
    /\ total_payoffs_log = <<>>

(***************************************************************************)
(* Lines 26-34: the simulation of the next agent starts.                   *)
(***************************************************************************)
SimStartAgent ==
    /\ pc_sim = "agents"
    /\ i_agent < num_agents
    /\ current_state' = states_all[0][1]
    /\ dataset' = [dataset EXCEPT ![count + 1][1] = Int2Rat(i_agent)]
    /\ period_sim' = 0
    /\ pc_sim' = "periods"
    /\ UNCHANGED <<evalVars, convVars, solveVars, simArgVars, count, i_agent, total_payoffs_log>>

(***************************************************************************)
(* Lines 37-88: one agent-period; the row count (0-based) is row count + 1 *)
(* of the dataset here.  A current_state that is no admissible state of    *)
(* the period is looked up as MISSING_INT, which is no row of the payoffs: *)
(* the simulation ends in an IndexError.                                   *)
(***************************************************************************)
SimPeriod ==
    /\ pc_sim = "periods"
    /\ period_sim < num_periods
    /\ LET k == mapping_state_idx(period_sim, current_state)
       IN  IF k = MISSING_INT
           THEN /\ pc_sim' = "error"
                /\ dataset' = [dataset EXCEPT ![count + 1] =
                       [c \in 1 .. 8 |->
                           IF c = 1 THEN Int2Rat(i_agent)
                           ELSE IF c = 2 THEN Int2Rat(period_sim)
                           ELSE dataset[count + 1][c]]]
                /\ UNCHANGED <<count, period_sim, i_agent, current_state,
                               total_payoffs_log, states_all>>
           ELSE LET payoffs_systematic == periods_payoffs_systematic[period_sim][k]
                    draws == periods_draws_sims[period_sim][i_agent]
                    total_payoffs == get_total_value(period_sim,
                                         payoffs_systematic, draws, k)
                    max_idx == ArgMax(total_payoffs)
                    ids == Identifiers(i_agent, period_sim)
                IN  /\ dataset' = [dataset EXCEPT ![count + 1] =
                           <<ids[1], ids[2], Int2Rat(RecordedChoice(max_idx)),
                             RecordedWage(max_idx, payoffs_systematic, draws),
                             Int2Rat(current_state[1]), Int2Rat(current_state[2]),
                             Int2Rat(current_state[3] + edu_start),
                             Int2Rat(current_state[4])>>]
                    /\ current_state' = UpdatedState(current_state, max_idx)
                    /\ states_all' =
                           IF StartStateIsCopy THEN states_all
                           ELSE [states_all EXCEPT ![0][1] =
                                    UpdatedState(current_state, max_idx)]
                    /\ total_payoffs_log' = Append(total_payoffs_log, total_payoffs)
                    /\ count' = count + 1
                    /\ period_sim' = period_sim + 1
                    /\ IF period_sim + 1 = num_periods
                       THEN pc_sim' = "agents" /\ i_agent' = i_agent + 1
                       ELSE pc_sim' = "periods" /\ i_agent' = i_agent
    /\ UNCHANGED <<evalVars, convVars, solveVars, num_agents, num_periods, edu_start, edu_max,
                   delta_sim, periods_payoffs_systematic, periods_emax,
                   periods_draws_sims>>

(***************************************************************************)
(* Line 91: the dataset is returned.                                       *)
(***************************************************************************)
SimFinish ==
    /\ pc_sim = "agents"
    /\ i_agent = num_agents
    /\ pc_sim' = "done"
    /\ UNCHANGED <<evalVars, convVars, solveVars, simArgVars, count, dataset, i_agent, period_sim,
                   current_state, total_payoffs_log>>

\* the simulator while a solve runs, and the solve while a simulation runs
SimIdle ==
    /\ num_agents = 0
    /\ num_periods = 0
    /\ edu_start = 10
    /\ edu_max = 10
    /\ delta_sim = Zero
    /\ periods_payoffs_systematic = <<>>
    /\ periods_emax = <<>>
    /\ periods_draws_sims = <<>>
    /\ states_all = <<>>
    /\ pc_sim = "idle"
    /\ count = 0
    /\ dataset = <<>>
    /\ i_agent = 0
    /\ period_sim = 0
    /\ current_state = <<0, 0, 0, 0>>
    /\ total_payoffs_log = <<>>

SolveIdle ==
    /\ optim_paras = [n_periods |-> 0, delta |-> Zero,
                      shocks_cholesky |-> ZeroCholesky,
                      wage |-> <<>>, nonpec |-> <<>>]
    /\ options = [interpolation_points |-> -1]
    /\ has_sub_state_spaces = FALSE
    /\ n_dense = 1
    /\ choice_sets = <<>>
    /\ wages = <<>>
    /\ nonpecs = <<>>
    /\ expected_value_functions = <<>>
    /\ pc = "idle"
    /\ todo = <<>>
    /\ period = -1
    /\ draws_emax_risk = <<>>
    /\ period_wages = <<>>
    /\ period_nonpecs = <<>>
    /\ continuation_values = <<>>
    /\ period_draws_emax_risk = <<>>
    /\ any_interpolated = FALSE
    /\ period_expected_value_functions = NoResult
    /\ pending = {}
    /\ visited = <<>>
    /\ stored = <<>>
    /\ mode = <<>>
    /\ order = <<>>
    /\ n_writes = <<>>
    /\ cont_reads = {}

(***************************************************************************)
(* The likelihood evaluator: evaluate and evaluate_python.                 *)
(*                                                                         *)
(* The functions it calls are not part of the sources at hand. A call is   *)
(* modelled by the record of its arguments: a battery of draws is          *)
(* [which, cholesky], a solution is [paras, draws, by], and the value of   *)
(* the criterion function is the record of what it was computed from.      *)
(***************************************************************************)
NoValue == [none |-> TRUE]

\* distribute_class_attributes(robupy_obj, ...): the attributes by name
distribute_class_attributes(obj) == obj

\* distribute_model_paras: the coefficients and the shock matrices
distribute_model_paras(paras) ==
    [coeffs |-> paras.coeffs,
     shocks_cov |-> paras.shocks,
     shocks_cholesky |-> paras.shocks]

\* create_draws(num_periods, num_draws, seed, is_debug, which, cholesky)
create_draws(seed, which, cholesky) ==
    [which |-> which, seed |-> seed, cholesky |-> cholesky]

\* pyth_solve(*solution): the backward induction for a parametrization
pyth_solve(paras, draws_emax, is_deterministic) ==
    [paras |-> paras, draws |-> draws_emax,
     is_deterministic |-> is_deterministic, by |-> "pyth_solve"]

\* fortran_interface(..., 'evaluate', data_frame): solves and evaluates
fortran_interface(paras, is_deterministic, data) ==
    <<[solution |-> [paras |-> paras, draws |-> NoValue,
                     is_deterministic |-> is_deterministic, by |-> "fortran"],
       data |-> data, draws |-> NoValue,
       is_deterministic |-> is_deterministic],
      [paras |-> paras, draws |-> NoValue,
       is_deterministic |-> is_deterministic, by |-> "fortran"]>>

\* evaluate_criterion_function / wrapper_evaluate_criterion_function
evaluate_criterion_function(sol, data_array, draws_prob, is_deterministic) ==
    [solution |-> sol, data |-> data_array, draws |-> draws_prob,
     is_deterministic |-> is_deterministic]

\* add_solution(robupy_obj, store, *solution): the solution becomes the
\* solution of the object
add_solution(obj, store, sol) == [obj EXCEPT !.solution = sol]

(***************************************************************************)
(* Inputs of an evaluation: a solved model object and a data frame.        *)
(***************************************************************************)
ParasSet ==
    {[coeffs |-> c, shocks |-> sh] : c \in {"base", "trial"},
                                    sh \in {"zero", "identity"}}

\* the solution the object holds when evaluate is called
SolutionOf(paras) ==
    [paras |-> paras,
     draws |-> create_draws("seed_emax", "emax", paras.shocks),
     is_deterministic |-> (paras.shocks = "zero"), by |-> "solve"]

EvalInit ==
    /\ \E paras \in ParasSet, version \in {"PYTHON", "F2PY", "FORTRAN"},
          store \in BOOLEAN, solved_for \in {"base", "trial"} :
          robupy_obj =
              [model_paras |-> paras,
               is_deterministic |-> (paras.shocks = "zero"),
               version |-> version,
               is_python |-> (version = "PYTHON"),
               store |-> store,
               seed_prob |-> "seed_prob",
               seed_emax |-> "seed_emax",
               solution |-> SolutionOf([paras EXCEPT !.coeffs = solved_for])]
    /\ data_frame \in {"panel_a", "panel_b"}
    /\ pc_eval = "distribute"
    /\ attrs = NoValue
    /\ model_paras = NoValue
    /\ periods_draws_prob = NoValue
    /\ periods_draws_emax = NoValue
    /\ solution = NoValue
    /\ likl = NoValue
    /\ robupy_obj_given = robupy_obj
    /\ draws_created = {}
    /\ solve_calls = 0
    /\ criterion_args = NoValue

(***************************************************************************)
(* evaluate, lines 23-44: the attributes and the parameters are read.      *)
(***************************************************************************)
EvalDistribute ==
    /\ pc_eval = "distribute"
    /\ attrs' = distribute_class_attributes(robupy_obj)
    /\ model_paras' = distribute_model_paras(robupy_obj.model_paras)
    /\ pc_eval' = "draws_prob"
    /\ UNCHANGED <<solveVars, simVars, convVars, robupy_obj, data_frame,
                   periods_draws_prob, periods_draws_emax, solution, likl,
                   robupy_obj_given, draws_created, solve_calls,
                   criterion_args>>

(***************************************************************************)
(* evaluate, lines 46-48: the battery for the choice probabilities.        *)
(***************************************************************************)
EvalCreateDrawsProb ==
    /\ pc_eval = "draws_prob"
    /\ periods_draws_prob' =
           create_draws(attrs.seed_prob, "prob", model_paras.shocks_cholesky)
    /\ draws_created' = draws_created \cup {"prob"}
    /\ pc_eval' = "draws_emax"
    /\ UNCHANGED <<solveVars, simVars, convVars, robupy_obj, data_frame,
                   attrs, model_paras, periods_draws_emax, solution, likl,
                   robupy_obj_given, solve_calls, criterion_args>>

(***************************************************************************)
(* evaluate, lines 50-52: the battery for the expected value functions.    *)
(***************************************************************************)
EvalCreateDrawsEmax ==
    /\ pc_eval = "draws_emax"
    /\ periods_draws_emax' =
           create_draws(attrs.seed_emax, "emax", model_paras.shocks_cholesky)
    /\ draws_created' = draws_created \cup {"emax"}
    /\ pc_eval' = "interface"
    /\ UNCHANGED <<solveVars, simVars, convVars, robupy_obj, data_frame,
                   attrs, model_paras, periods_draws_prob, solution, likl,
                   robupy_obj_given, solve_calls, criterion_args>>

(***************************************************************************)
(* evaluate, lines 55-62: the FORTRAN interface solves and evaluates.      *)
(***************************************************************************)
EvalFortran ==
    /\ pc_eval = "interface"
    /\ attrs.version = "FORTRAN"
    /\ LET res == fortran_interface(attrs.model_paras,
                                    attrs.is_deterministic, data_frame)
       IN  /\ likl' = res[1]
           /\ solution' = res[2]
           /\ criterion_args' = res[1]
    /\ solve_calls' = solve_calls + 1
    /\ pc_eval' = "add_solution"
    /\ UNCHANGED <<solveVars, simVars, convVars, robupy_obj, data_frame,
                   attrs, model_paras, periods_draws_prob, periods_draws_emax,
                   robupy_obj_given, draws_created>>

(***************************************************************************)
(* evaluate_python, lines 24-40: the model is solved for the               *)
(* parametrization and the solution is taken apart.                        *)
(***************************************************************************)
EvalPythonSolve ==
    /\ pc_eval = "interface"
    /\ attrs.version # "FORTRAN"
    /\ solution' = pyth_solve(attrs.model_paras, periods_draws_emax,
                              attrs.is_deterministic)
    /\ solve_calls' = solve_calls + 1
    /\ pc_eval' = "criterion"
    /\ UNCHANGED <<solveVars, simVars, convVars, robupy_obj, data_frame,
                   attrs, model_paras, periods_draws_prob, periods_draws_emax,
                   likl, robupy_obj_given, draws_created, criterion_args>>

(***************************************************************************)
(* evaluate_python, lines 42-57: the criterion function, PYTHON or F2PY.   *)
(***************************************************************************)
EvalCriterion ==
    /\ pc_eval = "criterion"
    /\ criterion_args' =
           evaluate_criterion_function(solution, data_frame,
               periods_draws_prob, attrs.is_deterministic)
    /\ likl' = criterion_args'
    /\ pc_eval' = "add_solution"
    /\ UNCHANGED <<solveVars, simVars, convVars, robupy_obj, data_frame,
                   attrs, model_paras, periods_draws_prob, periods_draws_emax,
                   solution, robupy_obj_given, draws_created, solve_calls>>

(***************************************************************************)
(* evaluate, lines 73-77: the solution is added to the object.             *)
(***************************************************************************)
EvalAddSolution ==
    /\ pc_eval = "add_solution"
    /\ robupy_obj' = add_solution(robupy_obj, attrs.store, solution)
    /\ pc_eval' = "return"
    /\ UNCHANGED <<solveVars, simVars, convVars, data_frame, attrs,
                   model_paras, periods_draws_prob, periods_draws_emax,
                   solution, likl, robupy_obj_given, draws_created,
                   solve_calls, criterion_args>>

(***************************************************************************)
(* evaluate, lines 79-80: likl and the object are returned.                *)
(***************************************************************************)
EvalReturn ==
    /\ pc_eval = "return"
    /\ pc_eval' = "done"
    /\ UNCHANGED <<solveVars, simVars, convVars, robupy_obj, data_frame,
                   attrs, model_paras, periods_draws_prob, periods_draws_emax,
                   solution, likl, robupy_obj_given, draws_created,
                   solve_calls, criterion_args>>

EvalIdle ==
    /\ robupy_obj = NoValue
    /\ data_frame = "none"
    /\ pc_eval = "idle"
    /\ attrs = NoValue
    /\ model_paras = NoValue
    /\ periods_draws_prob = NoValue
    /\ periods_draws_emax = NoValue
    /\ solution = NoValue
    /\ likl = NoValue
    /\ robupy_obj_given = NoValue
    /\ draws_created = {}
    /\ solve_calls = 0
    /\ criterion_args = NoValue

(***************************************************************************)
(* process_model: convert_init_dict_to_attr_dict and its inverse.          *)
(*                                                                         *)
(* Of the dictionaries the model keeps the SHOCKS coefficients and the     *)
(* 'fixed' flags of the groups of parameters; the other entries are copied *)
(* from one dictionary to the other unchanged. Positions are 0-based as in *)
(* the source; At0 and Slice translate them.  The coefficients are         *)
(* integers.  dict["SHOCKS"]["coeffs"] is .shocks_coeffs here.             *)
(***************************************************************************)
MaxSd == 2

At0(seq, i) == seq[i + 1]
\* seq[lower:upper]
Slice(seq, lower, upper) ==
    IF upper <= lower THEN <<>> ELSE SubSeq(seq, lower + 1, upper)

\* keys, lines 300-301: the order of the groups of parameters
GroupKeys ==
    <<"BASICS", "COMMON", "OCCUPATION A", "OCCUPATION B", "EDUCATION", "HOME",
      "SHOCKS", "TYPE SHARES", "TYPE SHIFTS">>

\* the hard-coded positions lower, upper of the groups, lines 351-399
GroupBounds ==
    [g \in {"BASICS", "COMMON", "OCCUPATION A", "OCCUPATION B", "EDUCATION",
            "HOME", "SHOCKS"} |->
        IF g = "BASICS" THEN <<0, 1>>
        ELSE IF g = "COMMON" THEN <<1, 3>>
        ELSE IF g = "OCCUPATION A" THEN <<3, 18>>
        ELSE IF g = "OCCUPATION B" THEN <<18, 33>>
        ELSE IF g = "EDUCATION" THEN <<33, 40>>
        ELSE IF g = "HOME" THEN <<40, 43>>
        ELSE <<43, 53>>]

\* _paras_mapping: the pairs (old, new)
paras_mapping ==
    <<<<43, 43>>, <<44, 44>>, <<45, 46>>, <<46, 49>>, <<47, 45>>, <<48, 47>>,
      <<49, 50>>, <<50, 48>>, <<51, 51>>, <<52, 52>>>>

\* lines 255-256: the standard deviations are squared, in place
SquaredInPlace(coeffs) ==
    [i \in DOMAIN coeffs |->
        IF i - 1 \in {0, 4, 7, 9} THEN coeffs[i] * coeffs[i] ELSE coeffs[i]]

\* lines 258-262: the upper triangular matrix of the coefficients
UpperShocks(c) ==
    <<<<At0(c, 0), At0(c, 1), At0(c, 2), At0(c, 3)>>,
      <<0, At0(c, 4), At0(c, 5), At0(c, 6)>>,
      <<0, 0, At0(c, 7), At0(c, 8)>>,
      <<0, 0, 0, At0(c, 9)>>>>

MutantShocksCovDiagonalTwice(shocks) ==
    [i \in 1 .. 4 |-> [j \in 1 .. 4 |-> shocks[i][j] + shocks[j][i]]]
\* line 264: shocks + shocks.T - np.diag(shocks.diagonal())
ShocksCov(shocks) ==
    [i \in 1 .. 4 |->
        [j \in 1 .. 4 |->
            shocks[i][j] + shocks[j][i] - (IF i = j THEN shocks[i][i] ELSE 0)]]

\* np.count_nonzero
count_nonzero(m) ==
    Cardinality({ij \in (1 .. 4) \X (1 .. 4) : m[ij[1]][ij[2]] # 0})

\* np.zeros((4, 4))
Zeros44 == [i \in 1 .. 4 |-> [j \in 1 .. 4 |-> 0]]

\* the matrix without its first row and its column j
MinorOfFirstRow(m, j) ==
    [i \in 1 .. (Len(m) - 1) |->
        [k \in 1 .. (Len(m) - 1) |-> m[i + 1][IF k < j THEN k ELSE k + 1]]]

RECURSIVE Det(_)
RECURSIVE DetExpansion(_, _)
DetExpansion(m, j) ==
    IF j > Len(m) THEN 0
    ELSE (IF j % 2 = 1 THEN 1 ELSE -1) * m[1][j] * Det(MinorOfFirstRow(m, j))
         + DetExpansion(m, j + 1)
Det(m) == IF Len(m) = 1 THEN m[1][1] ELSE DetExpansion(m, 1)

LeadingBlock(m, k) == [i \in 1 .. k |-> [j \in 1 .. k |-> m[i][j]]]

\* np.linalg.cholesky raises LinAlgError unless the matrix is positive
\* definite: all its leading principal minors are positive
IsPositiveDefinite(m) == \A k \in 1 .. 4 : Det(LeadingBlock(m, k)) > 0

\* np.linalg.cholesky(shocks_cov): the lower triangular factor, which the
\* matrix determines; a factor is represented by the matrix it factors
cholesky(m) == [factor_of |-> m]

\* np.zeros((4, 4)) as a factor: its product is the zero matrix
ZeroFactor == [factor_of |-> Zeros44]

\* lines 303-306: the flags of all groups, in the order of the keys
RECURSIVE ConcatFixed(_, _)
ConcatFixed(keys, fixed) ==
    IF keys = <<>> THEN <<>>
    ELSE fixed[Head(keys)] \o ConcatFixed(Tail(keys), fixed)

\* lines 328-333: paras_fixed_reordered[new] = paras_fixed[old]
RECURSIVE Reorder(_, _, _)
Reorder(mapping, paras_fixed, reordered) ==
    IF mapping = <<>> THEN reordered
    ELSE Reorder(Tail(mapping), paras_fixed,
                 [reordered EXCEPT ![Head(mapping)[2] + 1] =
                     At0(paras_fixed, Head(mapping)[1])])

MutantReorderBackSameDirection(mapping, reordered, paras_fixed) ==
    IF mapping = <<>> THEN paras_fixed
    ELSE Reorder(mapping, reordered, paras_fixed)
\* lines 408-412: paras_fixed[old] = paras_fixed_reordered[new]
RECURSIVE ReorderBack(_, _, _)
ReorderBack(mapping, reordered, paras_fixed) ==
    IF mapping = <<>> THEN paras_fixed
    ELSE ReorderBack(Tail(mapping), reordered,
                     [paras_fixed EXCEPT ![Head(mapping)[1] + 1] =
                         At0(reordered, Head(mapping)[2])])

\* the integer square root of a square
ISqrt(n) == CHOOSE r \in 0 .. n : r * r = n

\* cholesky_to_coeffs: the coefficients of the covariance matrix of a
\* factor, its upper triangle by rows with the roots of the diagonal
cholesky_to_coeffs(chol) ==
    LET cov == chol.factor_of
        entry(i, j) == IF i = j THEN ISqrt(cov[i][i]) ELSE cov[i][j]
    IN  <<entry(1, 1), entry(1, 2), entry(1, 3), entry(1, 4),
          entry(2, 2), entry(2, 3), entry(2, 4),
          entry(3, 3), entry(3, 4), entry(4, 4)>>

(***************************************************************************)
(* Inputs of a conversion.  Either the coefficients vary, or the flags do. *)
(***************************************************************************)
\* the coefficients: standard deviations at 0, 4, 7, 9, two covariances
ShocksCoeffsSet ==
    {<<sa, cab, 0, 0, sb, 0, 0, se, ceh, sh>> :
        sa \in 0 .. MaxSd, sb \in 0 .. MaxSd, se \in 0 .. MaxSd,
        sh \in 0 .. MaxSd, cab \in {0, 1}, ceh \in {0, 1}}

FlagPatterns == {"free", "odd"}
FlagAt(pattern, position) == pattern = "odd" /\ position % 2 = 1

\* the flags of a dictionary with num_types types whose SHOCKS flags are
\* shocks_fixed and whose other flags follow a pattern
FixedOf(pattern, shocks_fixed, num_types) ==
    [g \in {GroupKeys[i] : i \in DOMAIN GroupKeys} |->
        IF g = "SHOCKS" THEN shocks_fixed
        ELSE IF g = "TYPE SHARES"
        THEN [i \in 1 .. (2 * (num_types - 1)) |-> FlagAt(pattern, i)]
        ELSE IF g = "TYPE SHIFTS"
        THEN [i \in 1 .. (4 * (num_types - 1)) |-> ~FlagAt(pattern, i)]
        ELSE [i \in 1 .. (GroupBounds[g][2] - GroupBounds[g][1]) |->
                 FlagAt(pattern, GroupBounds[g][1] + i)]]

ConvInit ==
    /\ \/ \E coeffs \in ShocksCoeffsSet :
             init_dict = [shocks_coeffs |-> coeffs,
                          fixed |-> FixedOf("odd", [i \in 1 .. 10 |-> i = 3], 1)]
       \/ \E pattern \in FlagPatterns, num_types \in {1, 2},
             shocks_fixed \in [1 .. 10 -> BOOLEAN] :
             init_dict = [shocks_coeffs |-> <<1, 0, 0, 0, 1, 0, 0, 1, 0, 1>>,
                          fixed |-> FixedOf(pattern, shocks_fixed, num_types)]
    /\ attr_dict = NoValue
    /\ ini_back = NoValue
    /\ shocks_cov = Zeros44
    /\ pc_conv = "init_dict"
    /\ init_dict_given = init_dict
    /\ cholesky_calls = <<>>

(***************************************************************************)
(* convert_init_dict_to_attr_dict, lines 216-337.  The coefficients of     *)
(* init_dict are an array that the function squares in place; a covariance *)
(* matrix that is not positive definite ends the call in a LinAlgError.    *)
(***************************************************************************)
ConvertInitDict ==
    /\ pc_conv = "init_dict"
    /\ LET shocks_coeffs == SquaredInPlace(init_dict.shocks_coeffs)
           cov == ShocksCov(UpperShocks(shocks_coeffs))
           deterministic == count_nonzero(cov) = 0
           paras_fixed == ConcatFixed(GroupKeys, init_dict.fixed)
           num_types == (Len(init_dict.fixed["TYPE SHARES"]) \div 2) + 1
       IN  /\ init_dict' = [init_dict EXCEPT !.shocks_coeffs = shocks_coeffs]
           /\ shocks_cov' = cov
           /\ cholesky_calls' = IF deterministic THEN cholesky_calls
                                ELSE Append(cholesky_calls, cov)
           /\ IF ~deterministic /\ ~IsPositiveDefinite(cov)
              THEN /\ pc_conv' = "error"
                   /\ attr_dict' = attr_dict
              ELSE /\ pc_conv' = "attr_dict"
                   /\ attr_dict' =
                         [optim_paras |->
                             [shocks_cholesky |->
                                  IF deterministic THEN ZeroFactor
                                  ELSE cholesky(cov),
                              paras_fixed |->
                                  Reorder(paras_mapping, paras_fixed, paras_fixed)],
                          num_types |-> num_types,
                          num_paras |-> Len(paras_fixed)]
    /\ UNCHANGED <<solveVars, simVars, evalVars, ini_back, init_dict_given>>

(***************************************************************************)
(* convert_attr_dict_to_init_dict, lines 340-479.                          *)
(***************************************************************************)
ConvertAttrDict ==
    /\ pc_conv = "attr_dict"
    /\ LET attr == attr_dict
           fixed == attr.optim_paras.paras_fixed
           shares == 53 + (attr.num_types - 1) * 2
           paras_fixed == ReorderBack(paras_mapping, fixed, fixed)
       IN  ini_back' =
              [shocks_coeffs |->
                   cholesky_to_coeffs(attr.optim_paras.shocks_cholesky),
               fixed |->
                   [g \in {GroupKeys[i] : i \in DOMAIN GroupKeys} |->
                       IF g = "SHOCKS" THEN Slice(paras_fixed, 43, 53)
                       ELSE IF g = "TYPE SHARES" THEN Slice(fixed, 53, shares)
                       ELSE IF g = "TYPE SHIFTS"
                       THEN Slice(fixed, shares, attr.num_paras)
                       ELSE Slice(fixed, GroupBounds[g][1], GroupBounds[g][2])]]
    /\ pc_conv' = "done"
    /\ UNCHANGED <<solveVars, simVars, evalVars, init_dict, attr_dict,
                   shocks_cov, init_dict_given, cholesky_calls>>

ConvIdle ==
    /\ init_dict = NoValue
    /\ attr_dict = NoValue
    /\ ini_back = NoValue
    /\ shocks_cov = Zeros44
    /\ pc_conv = "idle"
    /\ init_dict_given = NoValue
    /\ cholesky_calls = <<>>


vars == <<solveVars, simVars, evalVars, convVars>>

Init == SolveInit /\ SimIdle /\ EvalIdle /\ ConvIdle

Next ==
    \/ CreateChoiceRewards
    \/ TransformDraws
    \/ BeginPeriod
    \/ Myopic
    \/ Interpolate
    \/ FullSolutionDispatch
    \/ \E key \in pending : FullSolutionTask(key)
    \/ Store
    \/ Return

Spec == Init /\ [][Next]_vars

InitSim == SimInit /\ SolveIdle /\ EvalIdle /\ ConvIdle

NextSim ==
    \/ SimStartAgent
    \/ SimPeriod
    \/ SimFinish

SpecSim == InitSim /\ [][NextSim]_vars

InitEval == EvalInit /\ SolveIdle /\ SimIdle /\ ConvIdle

NextEval ==
    \/ EvalDistribute
    \/ EvalCreateDrawsProb
    \/ EvalCreateDrawsEmax
    \/ EvalFortran
    \/ EvalPythonSolve
    \/ EvalCriterion
    \/ EvalAddSolution
    \/ EvalReturn

SpecEval == InitEval /\ [][NextEval]_vars

InitConv == ConvInit /\ SolveIdle /\ SimIdle /\ EvalIdle

NextConv ==
    \/ ConvertInitDict
    \/ ConvertAttrDict

SpecConv == InitConv /\ [][NextConv]_vars

(***************************************************************************)
(* Properties of the backward induction.                                   *)
(***************************************************************************)
InPeriod == pc \in {"branch", "full", "store"}

KeyStored(key) == \A i \in DOMAIN n_writes[key] : n_writes[key][i] >= 1

Range(seq) == {seq[i] : i \in DOMAIN seq}

\* the number of TRUE entries of a choice-set mask
NumEnabled(choice_set) == Cardinality({i \in DOMAIN choice_set : choice_set[i]})

\* C1: the periods are visited in the order n_periods-1, ..., 0, each once;
\* a period is entered only when every earlier visited period has been
\* stored for all its dense partitions, and the solve ends exactly when
\* period 0 has been stored.
C1_BackwardOrder ==
    /\ Len(visited) <= optim_paras.n_periods
    /\ \A i \in DOMAIN visited : visited[i] = optim_paras.n_periods - i
    /\ Len(stored) <= Len(visited)
    /\ stored = SubSeq(visited, 1, Len(stored))
    /\ Len(visited) - Len(stored) = (IF InPeriod THEN 1 ELSE 0)
    /\ InPeriod => period = visited[Len(visited)]
    /\ \A key \in Keys : KeyStored(key) <=> KeyPeriod(key) \in Range(stored)
    /\ pc = "done" => /\ Len(stored) = optim_paras.n_periods
                      /\ stored[Len(stored)] = 0
    /\ Len(stored) = optim_paras.n_periods => pc \in {"loop", "done"} /\ todo = <<>>

C1_Witness ==
    /\ pc = "done"
    /\ optim_paras.n_periods >= 3
    /\ n_dense >= 2
    /\ stored = <<2, 1, 0>> \/ Len(stored) > 3

\* C2: the continuation values of period p are read from the expected value
\* functions of period p+1 only, which are stored by then; the terminal
\* period reads nothing and has zero continuation values.
C2_ContinuationFromNextPeriod ==
    /\ \A r \in cont_reads :
          /\ r.by < optim_paras.n_periods - 1
          /\ r.key \in Keys
          /\ KeyPeriod(r.key) = r.by + 1
          /\ r.stored
    /\ InPeriod =>
          \A key \in DOMAIN continuation_values :
             \A i \in DOMAIN continuation_values[key] :
                \A j \in DOMAIN continuation_values[key][i] :
                   LET c == continuation_values[key][i][j]
                   IN  /\ ~IsNaN(c)
                       /\ period = optim_paras.n_periods - 1 => c = Zero
                       /\ period < optim_paras.n_periods - 1 =>
                             \E k \in KeysOfPeriod(period + 1) :
                                \E m \in DOMAIN expected_value_functions[k] :
                                   /\ c = expected_value_functions[k][m]
                                   /\ n_writes[k][m] = 1
                       /\ \A m \in DOMAIN expected_value_functions[key] :
                             n_writes[key][m] = 0

C2_Witness ==
    /\ pc = "full"
    /\ period = 0
    /\ optim_paras.n_periods >= 2
    /\ \E r \in cont_reads : r.by = 0 /\ r.stored
    /\ \E key \in DOMAIN continuation_values :
          \E i \in DOMAIN continuation_values[key] :
             continuation_values[key][i][1] # Zero

\* C3: with delta = 0 every stored expected value function is exactly 0 and
\* every period took the myopic branch (no full solution, no interpolation).
C3_MyopicZero ==
    (pc = "done" /\ optim_paras.delta = Zero) =>
        /\ \A key \in Keys : \A i \in DOMAIN expected_value_functions[key] :
              expected_value_functions[key][i] = Zero
        /\ \A p \in DOMAIN mode : mode[p] = "myopic"
        /\ order = <<>>

C3_Witness ==
    /\ pc = "done"
    /\ optim_paras.delta = Zero
    /\ optim_paras.n_periods >= 2
    /\ n_dense >= 2
    /\ options.interpolation_points \in 0 .. n_states_in_period(0)
    /\ optim_paras.shocks_cholesky # ZeroCholesky
    /\ \E key \in Keys : \E i \in DOMAIN wages[key] : wages[key][i][1] # One

\* the number of states solved in a period: core states times dense partitions
NumStatesSolved(p) == Len(CoreStates(p)) * n_dense

\* C4: for delta # 0, a period is interpolated exactly when the number of
\* interpolation points is non-negative and strictly less than the number
\* of states solved in the period; otherwise it gets the full solution.
C4_InterpolationStrict ==
    \A p \in DOMAIN mode :
        mode[p] \in {"interpolation", "full"} =>
            (mode[p] = "interpolation" <=>
                /\ options.interpolation_points >= 0
                /\ options.interpolation_points < NumStatesSolved(p))

\* the example of the specification: 2 periods, 1 dense partition, one wage
\* choice, one non-pecuniary choice with the constant reward 5, no shock
\* variance, delta = 0.9 and no interpolation
IsExample ==
    /\ optim_paras.n_periods = 2
    /\ n_dense = 1
    /\ choice_sets[0] = <<TRUE, FALSE, TRUE>>
    /\ optim_paras.wage = ExampleRewards.wage
    /\ optim_paras.nonpec = ExampleRewards.nonpec
    /\ optim_paras.shocks_cholesky = ZeroCholesky
    /\ optim_paras.delta = Rat(9, 10)
    /\ options.interpolation_points = -1

Five == Int2Rat(5)

\* C5 as stated: in the example the terminal period 1 stores 0 and period 0
\* stores max(wage_systematic, 5) for every state.
C5_ExampleAsStated ==
    (pc = "done" /\ IsExample) =>
        /\ \A i \in DOMAIN expected_value_functions[1] :
              expected_value_functions[1][i] = Zero
        /\ \A i \in DOMAIN expected_value_functions[0] :
              expected_value_functions[0][i] = RMax2(wages[0][i][1], Five)

\* C5 amended: in the example the terminal period 1 stores
\* max(wage_systematic, 5), and period 0 stores the maximum of
\* wage_systematic + 0.9 * EV1(state after working) and
\* 5 + 0.9 * EV1(state after staying home).
C5_ExampleAmended ==
    (pc = "done" /\ IsExample) =>
        /\ \A i \in DOMAIN expected_value_functions[1] :
              expected_value_functions[1][i] = RMax2(wages[1][i][1], Five)
        /\ \A i \in DOMAIN expected_value_functions[0] :
              expected_value_functions[0][i] =
                  RMax2(RAdd(wages[0][i][1],
                             RMul(Rat(9, 10), expected_value_functions[1][i + 1])),
                        RAdd(Five,
                             RMul(Rat(9, 10), expected_value_functions[1][i])))

C5_Witness ==
    /\ pc = "done"
    /\ IsExample
    /\ \E i \in DOMAIN wages[1] : RLess(Five, wages[1][i][1])
    /\ \E i \in DOMAIN wages[1] : RLess(wages[1][i][1], Five)
    /\ mode = [p \in {0, 1} |-> "full"]

OwnSolution(key) ==
    LET p == KeyPeriod(key)
        d == KeyDense(key)
        choices == EnabledChoices(choice_sets[d])
        cont == [i \in DOMAIN wages[key] |-> [j \in DOMAIN choices |->
                    IF p = optim_paras.n_periods - 1 THEN Zero
                    ELSE expected_value_functions[MakeKey(p + 1, d)]
                                                 [ChildRow(i, choices[j])]]]
    IN  IF optim_paras.delta = Zero
        THEN [i \in DOMAIN wages[key] |-> Zero]
        ELSE calculate_expected_value_functions(
                 wages[key], nonpecs[key], cont, draws_emax_risk[key],
                 optim_paras.delta)

C8_RewardShapes ==
    pc # "solve" =>
        \A key \in Keys :
            LET cs == dense_index_to_choice_set[key]
                cols == {c \in DOMAIN cs : cs[c]}
                col(c) == Cardinality({b \in cols : b <= c})
            IN  /\ Len(wages[key]) = Len(dense_index_to_indices[key])
                /\ Len(nonpecs[key]) = Len(dense_index_to_indices[key])
                /\ \A i \in DOMAIN wages[key] :
                      /\ Len(wages[key][i]) = NumEnabled(cs)
                      /\ Len(nonpecs[key][i]) = NumEnabled(cs)
                      /\ \A c \in cols :
                            /\ Choices[c] \notin DOMAIN optim_paras.wage
                                  => wages[key][i][col(c)] = One
                            /\ Choices[c] \notin DOMAIN optim_paras.nonpec
                                  => nonpecs[key][i][col(c)] = Zero

C8_Witness ==
    /\ pc = "draws"
    /\ \E key \in Keys :
          /\ dense_index_to_choice_set[key] = <<TRUE, FALSE, TRUE>>
          /\ Len(wages[key]) >= 3
          /\ Len(wages[key][1]) = 2
          /\ wages[key][2][1] # One
          /\ wages[key][2][2] = One
          /\ nonpecs[key][2][1] = Zero
          /\ nonpecs[key][2][2] # Zero


(***************************************************************************)
(* Properties of the simulator.                                            *)
(***************************************************************************)
\* the records written so far are complete
RowWritten(r) ==
    /\ dataset[r][1] # MISSING_FLOAT
    /\ dataset[r][2] # MISSING_FLOAT
    /\ dataset[r][3] # MISSING_FLOAT

\* C9: the dataset has num_agents * num_periods records; the records are
\* written in the order of their rows, row a * num_periods + t holds the
\* agent a and the period t, and at the end no record misses its agent,
\* period or choice.
C9_PanelOrder ==
    /\ Len(dataset) = num_agents * num_periods
    /\ count = i_agent * num_periods + (IF pc_sim = "periods" THEN period_sim ELSE 0)
    /\ \A a \in 0 .. (num_agents - 1) : \A t \in 0 .. (num_periods - 1) :
          LET r == a * num_periods + t + 1
          IN  IF r <= count
              THEN /\ dataset[r][1] = Int2Rat(a)
                   /\ dataset[r][2] = Int2Rat(t)
                   /\ RowWritten(r)
              ELSE /\ dataset[r][2] = MISSING_FLOAT
                   /\ dataset[r][3] = MISSING_FLOAT
    /\ pc_sim = "done" => /\ count = num_agents * num_periods
                          /\ \A r \in DOMAIN dataset : RowWritten(r)

C9_Witness ==
    /\ pc_sim = "done"
    /\ num_agents >= 2
    /\ num_periods >= 2
    /\ dataset[num_periods + 2][1] = One
    /\ dataset[num_periods + 2][2] = One

\* C10: the recorded choice is the 1-based position of a maximal total
\* value of the record, and no earlier position holds the maximum.
C10_ChoiceIsFirstMax ==
    /\ Len(total_payoffs_log) = count
    /\ \A r \in 1 .. count :
          \E c \in 1 .. 4 :
             /\ dataset[r][3] = Int2Rat(c)
             /\ \A b \in 1 .. 4 : ~RLess(total_payoffs_log[r][c], total_payoffs_log[r][b])
             /\ \A b \in 1 .. (c - 1) :
                   RLess(total_payoffs_log[r][b], total_payoffs_log[r][c])

C10_Witness ==
    /\ pc_sim = "done"
    /\ \E r \in 1 .. count :
          /\ total_payoffs_log[r][3] = total_payoffs_log[r][4]
          /\ RLess(total_payoffs_log[r][1], total_payoffs_log[r][3])
          /\ RLess(total_payoffs_log[r][2], total_payoffs_log[r][3])
          /\ dataset[r][3] = Int2Rat(3)

\* the fields of a record: agent, period, choice (1-based) and the state
\* before the choice
RowAgent(r) == dataset[r][1][1]
RowPeriod(r) == dataset[r][2][1]
RowChoice(r) == dataset[r][3][1]
RowState(r) ==
    <<dataset[r][5][1], dataset[r][6][1], dataset[r][7][1] - edu_start,
      dataset[r][8][1]>>

\* C11: the wage of a record is the systematic payoff of the chosen
\* occupation times its draw when the choice is occupation a or b (choice 1
\* or 2 of the record), and MISSING_FLOAT when it is education or home.
C11_WageField ==
    \A r \in 1 .. count :
       LET k == mapping_state_idx(RowPeriod(r), RowState(r))
           payoffs == periods_payoffs_systematic[RowPeriod(r)][k]
           draws == periods_draws_sims[RowPeriod(r)][RowAgent(r)]
           c == RowChoice(r)
       IN  IF c \in {1, 2}
           THEN dataset[r][4] = RMul(payoffs[c], draws[c])
           ELSE dataset[r][4] = MISSING_FLOAT

C11_Witness ==
    /\ pc_sim = "done"
    /\ \E r \in 1 .. count :
          /\ RowChoice(r) = 1
          /\ periods_draws_sims[RowPeriod(r)][RowAgent(r)][1] = Int2Rat(2)
          /\ dataset[r][4] = Int2Rat(4)
    /\ \E r \in 1 .. count :
          /\ RowChoice(r) = 4
          /\ dataset[r][4] = MISSING_FLOAT

\* C12: two consecutive records of one agent: the state of the later one is
\* the state of the earlier one with the counter of the earlier choice
\* incremented by one (none for home), and its lagged education is 1 iff
\* the earlier choice was education.
C12_StateTransition ==
    \A r \in 1 .. (count - 1) :
       (RowAgent(r + 1) = RowAgent(r)) =>
          LET st == RowState(r)
              nx == RowState(r + 1)
              c == RowChoice(r)
          IN  /\ RowPeriod(r + 1) = RowPeriod(r) + 1
              /\ nx[1] = st[1] + (IF c = 1 THEN 1 ELSE 0)
              /\ nx[2] = st[2] + (IF c = 2 THEN 1 ELSE 0)
              /\ nx[3] = st[3] + (IF c = 3 THEN 1 ELSE 0)
              /\ nx[4] \in {0, 1}
              /\ (nx[4] = 1) <=> (c = 3)

C12_Witness ==
    /\ pc_sim = "done"
    /\ \E r \in 1 .. (count - 2) :
          /\ RowAgent(r + 2) = RowAgent(r)
          /\ RowChoice(r) = 3
          /\ RowChoice(r + 1) = 4
          /\ RowState(r + 1) = <<0, 0, 1, 1>>
          /\ RowState(r + 2) = <<0, 0, 1, 0>>

\* choice c (0-based) has a strictly larger total value than every other
\* choice, in every state of every period and for the draws of every agent
Dominant(c) ==
    \A p \in DOMAIN states_all : \A k \in DOMAIN states_all[p] :
       \A a \in 0 .. (num_agents - 1) :
          LET v == get_total_value(p, periods_payoffs_systematic[p][k],
                                   periods_draws_sims[p][a], k)
          IN  \A b \in 1 .. 4 : b # c + 1 => RLess(v[b], v[c + 1])

\* C13: with delta = 0 and a choice that is dominant in every state and for
\* every draw, every record reports that choice.
C13_DominantChoice ==
    (pc_sim # "idle" /\ delta_sim = Zero) =>
       \A c \in 0 .. 3 :
          Dominant(c) =>
             /\ \A r \in 1 .. count : RowChoice(r) = c + 1
             /\ pc_sim = "done" => count = num_agents * num_periods

C13_Witness ==
    /\ pc_sim = "done"
    /\ delta_sim = Zero
    /\ Dominant(2)
    /\ num_agents >= 2
    /\ num_periods >= 2
    /\ count = num_agents * num_periods
    /\ \A r \in 1 .. count : RowChoice(r) = 3

\* C14: education is never the recorded choice of a state whose education
\* is at the ceiling, the education of the simulated state never exceeds
\* the ceiling, every state that is looked up is an admissible state of its
\* period, and the simulation does not end in an error.
C14_NoInfeasibleChoice ==
    /\ pc_sim # "error"
    /\ current_state[3] <= edu_max - edu_start
    /\ pc_sim = "periods" =>
          mapping_state_idx(period_sim, current_state) # MISSING_INT
    /\ \A r \in 1 .. count :
          /\ mapping_state_idx(RowPeriod(r), RowState(r)) # MISSING_INT
          /\ RowState(r)[3] >= edu_max - edu_start => RowChoice(r) # 3

\* an agent at the ceiling whose systematic payoff of education is the
\* largest of the four does not choose education
C14_Witness ==
    /\ pc_sim = "done"
    /\ \E r \in 1 .. count :
          LET k == mapping_state_idx(RowPeriod(r), RowState(r))
              payoffs == periods_payoffs_systematic[RowPeriod(r)][k]
          IN  /\ RowState(r)[3] = edu_max - edu_start
              /\ \A b \in {1, 2, 4} : RLess(payoffs[b], payoffs[3])
              /\ total_payoffs_log[r][3] = RMul(Int2Rat(-1), HUGE_FLOAT)
              /\ RowChoice(r) = 4

\* C17: no step of the simulation changes states_all, the systematic
\* payoffs or the expected value functions (mapping_state_idx is the index
\* of states_all), and the period-0 record of every agent holds the same
\* state, states_all[0, 0, :].
C17_ArgumentsUnchanged ==
    /\ [][/\ states_all' = states_all
          /\ periods_payoffs_systematic' = periods_payoffs_systematic
          /\ periods_emax' = periods_emax]_vars
    /\ [](\A r \in 1 .. count :
             RowPeriod(r) = 0 => /\ RowState(r) = RowState(1)
                                 /\ RowState(r) = states_all[0][1])

C17_Witness ==
    /\ pc_sim = "done"
    /\ num_agents >= 2
    /\ num_periods >= 2
    /\ RowChoice(1) # 4
    /\ RowState(2) # RowState(1)
    /\ RowAgent(num_periods + 1) = 1
    /\ RowPeriod(num_periods + 1) = 0
    /\ RowState(num_periods + 1) = RowState(1)

\* the agent whose state current_state is, once an agent has started
StateOwner == IF pc_sim = "periods" THEN i_agent ELSE i_agent - 1

NonHomeChoices(a, t) ==
    Cardinality({r \in 1 .. count :
                    RowAgent(r) = a /\ RowPeriod(r) < t /\ RowChoice(r) # 4})

CounterIncrease(st) ==
    (st[1] - states_all[0][1][1]) + (st[2] - states_all[0][1][2])
        + (st[3] - states_all[0][1][3])

\* C18: the experience counters of the state of an agent at period t are at
\* least their initial values, and their total increase is the number of
\* non-home choices of the agent in the periods before t, hence at most t;
\* the same holds of the state of every record.
C18_ExperienceBounds ==
    /\ (pc_sim \in {"periods", "agents", "done"} /\ StateOwner >= 0) =>
          /\ \A j \in 1 .. 3 : current_state[j] >= states_all[0][1][j]
          /\ CounterIncrease(current_state) = NonHomeChoices(StateOwner, period_sim)
          /\ CounterIncrease(current_state) <= period_sim
    /\ \A r \in 1 .. count :
          /\ \A j \in 1 .. 3 : RowState(r)[j] >= states_all[0][1][j]
          /\ CounterIncrease(RowState(r)) = NonHomeChoices(RowAgent(r), RowPeriod(r))
          /\ CounterIncrease(RowState(r)) <= RowPeriod(r)

C18_Witness ==
    /\ pc_sim = "agents"
    /\ i_agent >= 1
    /\ period_sim = num_periods
    /\ num_periods >= 2
    /\ CounterIncrease(current_state) = 1
    /\ NonHomeChoices(i_agent - 1, period_sim) = 1

(***************************************************************************)
(* Properties of the likelihood evaluator.                                 *)
(***************************************************************************)
\* C15: in an evaluation of a deterministic model no battery of draws for
\* the choice probabilities is created, and the criterion function is not
\* given one.
C15_NoDrawsWhenDeterministic ==
    (pc_eval # "idle" /\ robupy_obj_given.is_deterministic) =>
       /\ "prob" \notin draws_created
       /\ periods_draws_prob = NoValue
       /\ criterion_args # NoValue => criterion_args.draws = NoValue

\* C16: evaluate runs no solution, leaves the model object as it was given,
\* and computes the criterion from the solution stored in the object.
C16_EvaluatorReadOnly ==
    pc_eval # "idle" =>
       /\ solve_calls = 0
       /\ robupy_obj = robupy_obj_given
       /\ criterion_args # NoValue =>
             criterion_args.solution = robupy_obj_given.solution

(***************************************************************************)
(* Properties of the conversion of the dictionaries.                       *)
(***************************************************************************)
Converted == pc_conv \in {"attr_dict", "done"}

GivenCoeffs == init_dict_given.shocks_coeffs

\* C19: after the conversion of a dictionary whose ten shock coefficients
\* are zero, the covariance matrix is zero, shocks_cholesky is the zero
\* matrix, np.linalg.cholesky was not called and no error was raised; for
\* other coefficients the covariance matrix is symmetric, its diagonal holds
\* the squares of the standard deviations given and its upper triangle the
\* covariances given.
C19_DeterministicConversion ==
    (pc_conv \in {"attr_dict", "done", "error"}) =>
       IF \A i \in 1 .. 10 : GivenCoeffs[i] = 0
       THEN /\ pc_conv # "error"
            /\ shocks_cov = Zeros44
            /\ attr_dict.optim_paras.shocks_cholesky = ZeroFactor
            /\ cholesky_calls = <<>>
       ELSE /\ \A i \in 1 .. 4 : \A j \in 1 .. 4 : shocks_cov[i][j] = shocks_cov[j][i]
            /\ shocks_cov[1][1] = At0(GivenCoeffs, 0) * At0(GivenCoeffs, 0)
            /\ shocks_cov[2][2] = At0(GivenCoeffs, 4) * At0(GivenCoeffs, 4)
            /\ shocks_cov[3][3] = At0(GivenCoeffs, 7) * At0(GivenCoeffs, 7)
            /\ shocks_cov[4][4] = At0(GivenCoeffs, 9) * At0(GivenCoeffs, 9)
            /\ shocks_cov[1][2] = At0(GivenCoeffs, 1)
            /\ shocks_cov[1][3] = At0(GivenCoeffs, 2)
            /\ shocks_cov[1][4] = At0(GivenCoeffs, 3)
            /\ shocks_cov[2][3] = At0(GivenCoeffs, 5)
            /\ shocks_cov[2][4] = At0(GivenCoeffs, 6)
            /\ shocks_cov[3][4] = At0(GivenCoeffs, 8)
            /\ Converted => cholesky_calls = <<shocks_cov>>

C19_Witness ==
    /\ pc_conv = "attr_dict"
    /\ \A i \in 1 .. 10 : GivenCoeffs[i] = 0
    /\ attr_dict.optim_paras.shocks_cholesky = ZeroFactor
    /\ cholesky_calls = <<>>

GivenFixed == ConcatFixed(GroupKeys, init_dict_given.fixed)

\* C20: the pairs of _paras_mapping map the positions 43..52 one-to-one
\* onto themselves; convert_init_dict_to_attr_dict leaves the flags at the
\* other positions where they are, and after convert_attr_dict_to_init_dict
\* every group has the flags it was given, SHOCKS included.
C20_FixedRoundTrip ==
    /\ Len(paras_mapping) = 10
    /\ {paras_mapping[i][1] : i \in DOMAIN paras_mapping} = 43 .. 52
    /\ {paras_mapping[i][2] : i \in DOMAIN paras_mapping} = 43 .. 52
    /\ Converted =>
          /\ Len(attr_dict.optim_paras.paras_fixed) = Len(GivenFixed)
          /\ \A q \in 0 .. (Len(GivenFixed) - 1) :
                q \notin 43 .. 52 =>
                   At0(attr_dict.optim_paras.paras_fixed, q) = At0(GivenFixed, q)
    /\ pc_conv = "done" =>
          \A i \in DOMAIN GroupKeys :
             ini_back.fixed[GroupKeys[i]] = init_dict_given.fixed[GroupKeys[i]]

C20_Witness ==
    /\ pc_conv = "done"
    /\ attr_dict.num_types = 2
    /\ Slice(attr_dict.optim_paras.paras_fixed, 43, 53) # init_dict_given.fixed["SHOCKS"]
    /\ At0(init_dict_given.fixed["SHOCKS"], 2)
    /\ ~At0(init_dict_given.fixed["SHOCKS"], 3)
    /\ ini_back.fixed["SHOCKS"] = init_dict_given.fixed["SHOCKS"]
    /\ ini_back.fixed["TYPE SHIFTS"] = init_dict_given.fixed["TYPE SHIFTS"]
    /\ Len(ini_back.fixed["TYPE SHIFTS"]) = 4

\* the covariance matrix and the factor that a conversion of the dictionary
\* as it is now builds
CovOfConversion(dict) == ShocksCov(UpperShocks(SquaredInPlace(dict.shocks_coeffs)))

\* C21: after convert_init_dict_to_attr_dict the SHOCKS coefficients of
\* init_dict are the coefficients it was given, and a second conversion of
\* the same init_dict builds the covariance matrix (hence the Cholesky
\* factor) that the first one built.
C21_InitDictUnchanged ==
    (pc_conv \in {"attr_dict", "done", "error"}) =>
       /\ init_dict.shocks_coeffs = init_dict_given.shocks_coeffs
       /\ init_dict.fixed = init_dict_given.fixed
       /\ CovOfConversion(init_dict) = shocks_cov
       /\ cholesky(CovOfConversion(init_dict)) = cholesky(shocks_cov)

=============================================================================
